---- MODULE Spec2Model ----
(***************************************************************************)
(* AI-Travel-Buddy: the recommendation engine (recommendation_engine.py),  *)
(* the itinerary generator (itinerary_generator.py) and the catalog        *)
(* queries of the data manager (data_manager.py).                          *)
(*                                                                         *)
(* Money is kept exact: an amount is an integer number of ticks, with      *)
(* Scale ticks to the dollar.  Scale is a multiple of 2000 and of every    *)
(* duration the model draws, so that x / duration, x * 0.3, x * 0.35,      *)
(* x * 0.4 and x / 2 of the source are exact integer operations here.      *)
(* Popularity is kept in hundredths, rating in tenths, travel time in      *)
(* seconds (distance * 3600 / speed is an integer for every catalog speed).*)
(***************************************************************************)
EXTENDS Integers, Sequences, FiniteSets, TLC

VARIABLES pc, user_preferences, destination, transportation, accommodation,
          remaining_budget, daily_activity_budget, daily_plans, result,
          act_input, act_output,
          stored_accommodations, acc_input, acc_output,
          widgets, clicks, generated_itinerary, error_message,
          session_user_preferences,
          haul, plan_input, plan_output

vars == <<pc, user_preferences, destination, transportation, accommodation,
          remaining_budget, daily_activity_budget, daily_plans, result,
          act_input, act_output,
          stored_accommodations, acc_input, acc_output,
          widgets, clicks, generated_itinerary, error_message,
          session_user_preferences,
          haul, plan_input, plan_output>>

\* the session state of the page and the widgets of its sidebar
sessionVars == <<widgets, clicks, generated_itinerary, error_message,
                 session_user_preferences>>

\* the argument and the result of a direct call of recommend_accommodation
accCallVars == <<acc_input, acc_output>>

\* the argument and the result of a direct call of recommend_daily_plan
planCallVars == <<plan_input, plan_output>>

(***************************************************************************)
(* Bounds of the model.                                                    *)
(***************************************************************************)
MaxDuration == 3

MaxResultsBound == 4

\* the number of clicks on "Generate Travel Plan" in one session
MaxClicks == 2

(***************************************************************************)
(* Exact arithmetic.                                                       *)
(***************************************************************************)
RECURSIVE Gcd(_, _)
Gcd(a, b) == IF b = 0 THEN a ELSE Gcd(b, a % b)

RECURSIVE LcmUpTo(_)
LcmUpTo(n) == IF n <= 1 THEN 1
              ELSE LET l == LcmUpTo(n - 1) IN (l * n) \div Gcd(l, n)

Scale == 2000 * LcmUpTo(MaxDuration)

Dollars(n) == n * Scale

HalfDollars(n) == (n * Scale) \div 2

\* x * (num / den), for the decimal factors of the source (0.2 = 2/10, ...)
Times(x, num, den) == (x * num) \div den

\* x / d for a divisor that is not zero and may be negative
Quotient(x, d) == IF d > 0 THEN x \div d ELSE -(x \div (-d))

None == [none |-> TRUE]

IsError(r) == "error" \in DOMAIN r

Raise(name) == [error |-> name]

\* the elements of a sequence
Range(s) == {s[i] : i \in DOMAIN s}

RECURSIVE SumSeq(_)
SumSeq(s) == IF s = <<>> THEN 0 ELSE s[1] + SumSeq(Tail(s))

(***************************************************************************)
(* list.sort(key=..., reverse=...) is stable: Before(a, b) is the strict   *)
(* order of the keys, and elements with equal keys keep their order.       *)
(***************************************************************************)
StableSort(s, Before(_, _)) ==
    LET n == Len(s)
        Rank(i) == Cardinality({j \in 1..n :
                        \/ Before(s[j], s[i])
                        \/ (~Before(s[i], s[j]) /\ j < i)}) + 1
    IN  [k \in 1..n |-> s[CHOOSE i \in 1..n : Rank(i) = k]]

\* s[:n] of Python: a negative n counts from the end
Prefix(s, n) ==
    IF n >= 0 THEN SubSeq(s, 1, IF n < Len(s) THEN n ELSE Len(s))
    ELSE SubSeq(s, 1, IF Len(s) + n > 0 THEN Len(s) + n ELSE 0)

(***************************************************************************)
(* The catalog (DataManager).  The source draws costs, ratings and         *)
(* popularities at random when the catalog is built; the rows below are    *)
(* one catalog the constructor can build, cut down to two destinations     *)
(* and a few activities of each.                                           *)
(***************************************************************************)
destinations_df ==
    << [id |-> 1, name |-> "Paris, France", cost_level |-> 3,
        description |-> "The City of Light, known for its art, fashion, gastronomy, and culture."],
       [id |-> 5, name |-> "Bali, Indonesia", cost_level |-> 2,
        description |-> "Island paradise with beaches, temples, and lush landscapes."] >>

Act(id, dest, cat, desc, cost, m, a, e, pop) ==
    [id |-> id, destination_id |-> dest, category |-> cat, description |-> desc,
     cost |-> cost, morning_suitable |-> m, afternoon_suitable |-> a,
     evening_suitable |-> e, popularity |-> pop]

activities_df ==
    << Act(7, 1, "Food & Culinary",
           "Taste the local cuisine or join a food tour in Paris, France.",
           HalfDollars(90), FALSE, TRUE, TRUE, 90),
       Act(14, 1, "Entertainment",
           "Enjoy shows, performances, or nightlife in Paris, France.",
           HalfDollars(90), FALSE, FALSE, TRUE, 80),
       Act(17, 1, "Sightseeing",
           "Visit popular landmarks and attractions in Paris, France.",
           HalfDollars(30), TRUE, TRUE, FALSE, 85),
       Act(18, 1, "Sightseeing",
           "Visit popular landmarks and attractions in Paris, France.",
           HalfDollars(42), TRUE, TRUE, FALSE, 80),
       Act(77, 5, "Cultural & Historical",
           "Visit a prominent museum or cultural landmark in Bali, Indonesia.",
           Dollars(20), TRUE, TRUE, FALSE, 80),
       Act(89, 5, "Shopping",
           "Explore local markets, boutiques, or shopping districts in Bali, Indonesia.",
           Dollars(0), FALSE, TRUE, TRUE, 70),
       Act(90, 5, "Entertainment",
           "Enjoy shows, performances, or nightlife in Bali, Indonesia.",
           Dollars(40), FALSE, FALSE, TRUE, 80),
       Act(91, 5, "Entertainment",
           "Enjoy shows, performances, or nightlife in Bali, Indonesia.",
           Dollars(30), FALSE, FALSE, TRUE, 90),
       Act(92, 5, "Entertainment",
           "Enjoy shows, performances, or nightlife in Bali, Indonesia.",
           Dollars(50), FALSE, FALSE, TRUE, 80),
       Act(191, 1, "Sightseeing",
           "Visit the iconic symbol of Paris with options to go to the top for panoramic views.",
           Dollars(25), TRUE, TRUE, TRUE, 95),
       Act(192, 1, "Cultural & Historical",
           "Explore one of the world's largest art museums, home to the Mona Lisa.",
           Dollars(15), TRUE, TRUE, FALSE, 90),
       Act(193, 1, "Sightseeing",
           "See Paris from the water on a scenic boat tour along the Seine River.",
           Dollars(15), TRUE, TRUE, TRUE, 85) >>

transportation_df ==
    << [mode |-> "Plane", typical_cost_per_km |-> Times(Scale, 15, 100), speed_km_h |-> 900],
       [mode |-> "Train", typical_cost_per_km |-> Times(Scale, 10, 100), speed_km_h |-> 200],
       [mode |-> "Bus",   typical_cost_per_km |-> Times(Scale, 5, 100),  speed_km_h |-> 80],
       [mode |-> "Car",   typical_cost_per_km |-> Times(Scale, 20, 100), speed_km_h |-> 100],
       [mode |-> "Ferry", typical_cost_per_km |-> Times(Scale, 8, 100),  speed_km_h |-> 40] >>

Acc(dest, name, type, cpn, rating) ==
    [destination_id |-> dest, name |-> name, type |-> type,
     cost_per_night |-> cpn, rating |-> rating]

accommodations_df ==
    << Acc(1, "Budget Hotel in Paris, France", "Hotel", Dollars(90), 35),
       Acc(1, "Hostel in Paris, France", "Hostel", Dollars(60), 38),
       Acc(1, "Mid-range Hotel in Paris, France", "Hotel", Dollars(180), 42),
       Acc(1, "Airbnb Apartment in Paris, France", "Airbnb", Dollars(150), 42),
       Acc(1, "Luxury Hotel in Paris, France", "Hotel", Dollars(450), 45),
       Acc(1, "Resort in Paris, France", "Resort", Dollars(600), 48),
       Acc(5, "Budget Hotel in Bali, Indonesia", "Hotel", Dollars(60), 40),
       Acc(5, "Hostel in Bali, Indonesia", "Hostel", Dollars(40), 32),
       Acc(5, "Mid-range Hotel in Bali, Indonesia", "Hotel", Dollars(120), 40),
       Acc(5, "Airbnb Apartment in Bali, Indonesia", "Airbnb", Dollars(100), 44),
       Acc(5, "Luxury Hotel in Bali, Indonesia", "Hotel", Dollars(300), 40),
       Acc(5, "Resort in Bali, Indonesia", "Resort", Dollars(400), 50) >>

(***************************************************************************)
(* Catalog queries.  df[mask].iloc[0] raises IndexError on an empty frame; *)
(* to_dict(orient='records') builds fresh records in row order.            *)
(***************************************************************************)
\* variant: an unknown name falls back to the first destination
get_destination_by_name_Mut(name) ==
    LET rows == SelectSeq(destinations_df, LAMBDA d : d.name = name)
    IN  IF rows = <<>> THEN destinations_df[1] ELSE rows[1]

get_destination_by_name(name) ==
    LET rows == SelectSeq(destinations_df, LAMBDA d : d.name = name)
    IN  IF rows = <<>> THEN Raise("IndexError") ELSE rows[1]

get_destination_by_id(destination_id) ==
    LET rows == SelectSeq(destinations_df, LAMBDA d : d.id = destination_id)
    IN  IF rows = <<>> THEN Raise("IndexError") ELSE rows[1]

get_activities_by_destination(destination_id) ==
    SelectSeq(activities_df, LAMBDA a : a.destination_id = destination_id)

get_accommodations_by_destination(destination_id) ==
    SelectSeq(stored_accommodations, LAMBDA a : a.destination_id = destination_id)

get_accommodations_by_destination_and_type(destination_id, accommodation_type) ==
    IF accommodation_type = "Any"
    THEN get_accommodations_by_destination(destination_id)
    ELSE SelectSeq(stored_accommodations,
                   LAMBDA a : a.destination_id = destination_id
                              /\ a.type = accommodation_type)

\* variant: an unknown mode falls back to a sampled row
get_transportation_by_mode_Mut(mode) ==
    IF mode = "Any"
    THEN Range(transportation_df)
    ELSE LET rows == SelectSeq(transportation_df, LAMBDA t : t.mode = mode)
         IN  IF rows = <<>> THEN Range(transportation_df) ELSE {rows[1]}

\* variant: an unknown mode selects the first row of the table
get_transportation_by_mode_First(mode) ==
    IF mode = "Any"
    THEN Range(transportation_df)
    ELSE LET rows == SelectSeq(transportation_df, LAMBDA t : t.mode = mode)
         IN  IF rows = <<>> THEN {transportation_df[1]} ELSE {rows[1]}

\* the set of outcomes: "Any" samples one row, a name selects its first row
get_transportation_by_mode(mode) ==
    IF mode = "Any"
    THEN Range(transportation_df)
    ELSE LET rows == SelectSeq(transportation_df, LAMBDA t : t.mode = mode)
         IN  IF rows = <<>> THEN {Raise("IndexError")} ELSE {rows[1]}

(***************************************************************************)
(* random.randint(a, b): the model draws from the sample distances that    *)
(* lie in a..b; the samples hold both ends of every range the source uses  *)
(* and both sides of its tier limits (300 and 1000).                       *)
(***************************************************************************)
DistanceSamples == {50, 300, 301, 800, 1000, 1001, 500, 2000, 5000, 8000}

randint(a, b) == {d \in DistanceSamples : a <= d /\ d <= b}

(***************************************************************************)
(* RecommendationEngine.recommend_transportation                          *)
(***************************************************************************)
\* variant: one range for every fixed mode
FixedModeDistance_Mut(preferred_mode) == randint(50, 2000)

\* the distance range of a fixed mode (recommendation_engine.py 150-155)
FixedModeDistance(preferred_mode) ==
    IF preferred_mode = "Plane" THEN randint(500, 5000)
    ELSE IF preferred_mode \in {"Train", "Bus", "Car"} THEN randint(50, 800)
    ELSE randint(50, 2000)

\* variant: the cost is the rate of the mode, whatever the distance
TransportRecord_Mut(transport, distance_km, prefs) ==
    [mode |-> transport.mode,
     distance_km |-> distance_km,
     cost |-> transport.typical_cost_per_km,
     travel_time_hours |-> (distance_km * 3600) \div transport.speed_km_h,
     details |-> <<"From", prefs.origin, "to", prefs.destination, "via", transport.mode>>]

\* the record both paths return (157-169, 195-207)
TransportRecord(transport, distance_km, prefs) ==
    [mode |-> transport.mode,
     distance_km |-> distance_km,
     cost |-> distance_km * transport.typical_cost_per_km,
     travel_time_hours |-> (distance_km * 3600) \div transport.speed_km_h,
     details |-> <<"From", prefs.origin, "to", prefs.destination, "via", transport.mode>>]

\* variant: the lower tier ends below 300 km
ModeForDistance_Mut(distance_km) ==
    IF distance_km > 1000 THEN {"Plane"}
    ELSE IF distance_km >= 300 THEN {"Plane", "Train", "Car"}
    ELSE {"Train", "Bus", "Car"}

\* the mode choices of a distance on the free path (186-191)
ModeForDistance(distance_km) ==
    IF distance_km > 1000 THEN {"Plane"}
    ELSE IF distance_km > 300 THEN {"Plane", "Train", "Car"}
    ELSE {"Train", "Bus", "Car"}

\* 180-183: the range the decision random.random() < 0.7 selects
HaulDistance(decided) ==
    IF decided = "long-haul" THEN randint(1000, 8000) ELSE randint(50, 800)

\* the distances of the free path: random.random() < 0.7 picks the range
FreeModeDistance == HaulDistance("long-haul") \cup HaulDistance("short-haul")

\* the outcomes of the free path once the range is decided (180-207)
FreeModeOutcomes(prefs, decided) ==
    UNION {UNION {{IF IsError(t) THEN t ELSE TransportRecord(t, d, prefs) :
                      t \in get_transportation_by_mode(recommended_mode)} :
                  recommended_mode \in ModeForDistance(d)} :
           d \in HaulDistance(decided)}

\* the set of outcomes of one call, over its random draws
recommend_transportation(prefs) ==
    LET preferred_mode == prefs.transportation
    IN  IF preferred_mode # "Any"
        THEN {IF IsError(t) THEN t ELSE TransportRecord(t, d, prefs) :
                  t \in get_transportation_by_mode(preferred_mode),
                  d \in FixedModeDistance(preferred_mode)}
        ELSE FreeModeOutcomes(prefs, "long-haul")
                 \cup FreeModeOutcomes(prefs, "short-haul")

\* the decisions of 180 a call can take: none on the fixed-mode path
HaulDecisions(prefs) ==
    IF prefs.transportation # "Any" THEN {"none"} ELSE {"long-haul", "short-haul"}

\* the outcomes of a call whose decision of 180 is known
TransportationOutcomes(prefs, decided) ==
    IF decided = "none" THEN recommend_transportation(prefs)
    ELSE FreeModeOutcomes(prefs, decided)

(***************************************************************************)
(* RecommendationEngine.recommend_accommodation                           *)
(***************************************************************************)
\* budget / duration * 0.35 (245-246); duration # 0
AccommodationBudget(prefs) == Times(Quotient(prefs.budget, prefs.duration), 35, 100)

\* variant: the budget filter is dropped
Affordable_Mut(accommodations, accommodation_budget) == accommodations

\* 249
Affordable(accommodations, accommodation_budget) ==
    SelectSeq(accommodations, LAMBDA a : a.cost_per_night <= accommodation_budget)

\* accommodations.sort(key=cost_per_night)[0] (253-254)
Cheapest(accommodations) ==
    StableSort(accommodations, LAMBDA a, b : a.cost_per_night < b.cost_per_night)[1]

\* variant: the cost is not negated in the key
BestRated_Mut(affordable_accommodations) ==
    StableSort(affordable_accommodations,
               LAMBDA a, b : \/ a.rating > b.rating
                             \/ (a.rating = b.rating
                                 /\ a.cost_per_night > b.cost_per_night))[1]

\* sort(key=(rating, -cost_per_night), reverse=True)[0] (257-258)
BestRated(affordable_accommodations) ==
    StableSort(affordable_accommodations,
               LAMBDA a, b : \/ a.rating > b.rating
                             \/ (a.rating = b.rating
                                 /\ a.cost_per_night < b.cost_per_night))[1]

\* variant: also widens when no entry of the preferred type is affordable
AccommodationCandidates_Mut(prefs, destination_id) ==
    LET byType == get_accommodations_by_destination_and_type(destination_id,
                                                             prefs.accommodation)
    IN  IF byType = <<>>
           \/ (prefs.duration # 0
               /\ Affordable(byType, AccommodationBudget(prefs)) = <<>>)
        THEN get_accommodations_by_destination(destination_id)
        ELSE byType

\* the candidates after the widening of 224-230
AccommodationCandidates(prefs, destination_id) ==
    LET byType == get_accommodations_by_destination_and_type(destination_id,
                                                             prefs.accommodation)
    IN  IF byType = <<>> THEN get_accommodations_by_destination(destination_id)
        ELSE byType

\* variant: the fallback record is a "Hotel" whatever type was asked for
recommend_accommodation_Mut(prefs, destination_id) ==
    LET accommodations == AccommodationCandidates(prefs, destination_id)
    IN  IF accommodations = <<>>
        THEN [name |-> "Local Accommodation",
              type |-> "Hotel",
              cost_per_night |-> Dollars(100),
              total_cost |-> Dollars(100) * prefs.duration,
              rating |-> 40,
              amenities |-> <<"WiFi", "Breakfast">>]
        ELSE IF prefs.duration = 0 THEN Raise("ZeroDivisionError")
        ELSE LET affordable_accommodations ==
                     Affordable(accommodations, AccommodationBudget(prefs))
                 selected == IF affordable_accommodations = <<>>
                             THEN Cheapest(accommodations)
                             ELSE BestRated(affordable_accommodations)
             IN  [total_cost |-> selected.cost_per_night * prefs.duration] @@ selected

recommend_accommodation(prefs, destination_id) ==
    LET preferred_type == prefs.accommodation
        accommodations == AccommodationCandidates(prefs, destination_id)
    IN  IF accommodations = <<>>
        THEN [name |-> "Local Accommodation",
              type |-> IF preferred_type # "Any" THEN preferred_type ELSE "Hotel",
              cost_per_night |-> Dollars(100),
              total_cost |-> Dollars(100) * prefs.duration,
              rating |-> 40,
              amenities |-> <<"WiFi", "Breakfast">>]
        ELSE IF prefs.duration = 0 THEN Raise("ZeroDivisionError")
        ELSE LET affordable_accommodations ==
                     Affordable(accommodations, AccommodationBudget(prefs))
                 selected == IF affordable_accommodations = <<>>
                             THEN Cheapest(accommodations)
                             ELSE BestRated(affordable_accommodations)
             IN  [total_cost |-> selected.cost_per_night * prefs.duration] @@ selected

\* variant: the selected row is a view of the stored table, so the attached
\* total_cost is written through to it
StoreAfterSelection_Mut(prefs, destination_id) ==
    LET selected == recommend_accommodation(prefs, destination_id)
    IN  IF IsError(selected) THEN stored_accommodations
        ELSE [i \in DOMAIN stored_accommodations |->
                 IF /\ stored_accommodations[i].destination_id = destination_id
                    /\ stored_accommodations[i].name = selected.name
                 THEN selected
                 ELSE stored_accommodations[i]]

\* The stored table after a call of recommend_accommodation. Both getters end
\* in to_dict(orient='records'), which builds new dicts from the rows of the
\* filtered frame, so the sort of 253 and 257 and the total_cost written at
\* 264 reach those copies only; nothing in the call assigns to
\* accommodations_df.
StoreAfterSelection(prefs, destination_id) == stored_accommodations

(***************************************************************************)
(* RecommendationEngine.recommend_activities                              *)
(***************************************************************************)
\* constraints.get(key) is not None
Given(constraints, key) == key \in DOMAIN constraints

\* variant: no fallback when the category filter leaves nothing
CategoryFilter_Mut(all_activities, preferred_categories) ==
    IF preferred_categories # {}
    THEN SelectSeq(all_activities, LAMBDA a : a.category \in preferred_categories)
    ELSE all_activities

\* 288-298: the category filter and its fallback to all activities
CategoryFilter(all_activities, preferred_categories) ==
    IF preferred_categories # {}
    THEN LET preferred_activities ==
                 SelectSeq(all_activities, LAMBDA a : a.category \in preferred_categories)
         IN  IF preferred_activities = <<>> THEN all_activities
             ELSE preferred_activities
    ELSE all_activities

\* variant: the suitability flags are not looked at
TimeFilter_Mut(preferred_activities, constraints) == preferred_activities

\* 300-308
TimeFilter(preferred_activities, constraints) ==
    IF ~Given(constraints, "time_of_day") THEN preferred_activities
    ELSE IF constraints.time_of_day = "morning"
         THEN SelectSeq(preferred_activities, LAMBDA a : a.morning_suitable)
    ELSE IF constraints.time_of_day = "afternoon"
         THEN SelectSeq(preferred_activities, LAMBDA a : a.afternoon_suitable)
    ELSE IF constraints.time_of_day = "evening"
         THEN SelectSeq(preferred_activities, LAMBDA a : a.evening_suitable)
    ELSE preferred_activities

\* 310-313
CostFilter(preferred_activities, constraints) ==
    IF Given(constraints, "max_cost")
    THEN SelectSeq(preferred_activities, LAMBDA a : a.cost <= constraints.max_cost)
    ELSE preferred_activities

\* variant: the cost is not negated in the key
RanksBefore_Mut(a, b) ==
    \/ a.popularity > b.popularity
    \/ (a.popularity = b.popularity /\ a.cost > b.cost)

\* the order of sort(key=(popularity, -cost), reverse=True) (316)
RanksBefore(a, b) ==
    \/ a.popularity > b.popularity
    \/ (a.popularity = b.popularity /\ a.cost < b.cost)

\* 316
SortActivities(preferred_activities) == StableSort(preferred_activities, RanksBefore)

\* constraints.get("max_results", 10) (319)
MaxResults(constraints) ==
    IF Given(constraints, "max_results") THEN constraints.max_results ELSE 10

\* the list before truncation
FilteredActivities(prefs, destination_id, constraints) ==
    CostFilter(TimeFilter(CategoryFilter(get_activities_by_destination(destination_id),
                                         prefs.activities),
                          constraints),
               constraints)

recommend_activities(prefs, destination_id, constraints) ==
    LET all_activities == get_activities_by_destination(destination_id)
    IN  IF all_activities = <<>> THEN <<>>
        ELSE Prefix(SortActivities(FilteredActivities(prefs, destination_id, constraints)),
                    MaxResults(constraints))

(***************************************************************************)
(* RecommendationEngine.recommend_daily_plan                              *)
(***************************************************************************)
\* a local variable the function has not assigned
Unbound == [unbound |-> TRUE]

\* word in description.lower(): the hint words each catalog description
\* contains as a substring
HintsIn(description) ==
    CASE description = "Visit a prominent museum or cultural landmark in Bali, Indonesia."
           -> {"museum", "cultural"}
      [] description = "Taste the local cuisine or join a food tour in Paris, France."
           -> {"cuisine", "food"}
      [] description = "Explore one of the world's largest art museums, home to the Mona Lisa."
           -> {"museum"}
      [] OTHER -> {}

LowerContains(word, description) == word \in HintsIn(description)

\* the f-strings of the three fillers (374, 388, 402)
FillerDescription(period, name) ==
    CASE period = "morning" /\ name = "Paris, France"
           -> "Explore the area near your accommodation in Paris, France."
      [] period = "morning" /\ name = "Bali, Indonesia"
           -> "Explore the area near your accommodation in Bali, Indonesia."
      [] period = "afternoon" /\ name = "Paris, France"
           -> "Enjoy local sights and culture in Paris, France."
      [] period = "afternoon" /\ name = "Bali, Indonesia"
           -> "Enjoy local sights and culture in Bali, Indonesia."
      [] period = "evening" /\ name = "Paris, France"
           -> "Dine at a local restaurant and experience Paris, France's nightlife."
      [] period = "evening" /\ name = "Bali, Indonesia"
           -> "Dine at a local restaurant and experience Bali, Indonesia's nightlife."

\* 336-338
MorningBudget(daily_budget) == Times(daily_budget, 3, 10)

AfternoonBudget(daily_budget) == Times(daily_budget, 4, 10)

EveningBudget(daily_budget) == Times(daily_budget, 3, 10)

\* variant: the period's share is not passed as max_cost
PeriodActivities_Mut(prefs, destination_id, period, period_budget) ==
    recommend_activities(prefs, destination_id,
        [time_of_day |-> period, max_results |-> 3])

\* the three candidate lists (344-362)
PeriodActivities(prefs, destination_id, period, period_budget) ==
    recommend_activities(prefs, destination_id,
        [time_of_day |-> period, max_cost |-> period_budget, max_results |-> 3])

\* random.choice(activities[:min(3, len)]), or no assignment (365-404)
PeriodChoices(activities) ==
    IF activities # <<>>
    THEN Range(Prefix(activities, IF 3 < Len(activities) THEN 3 ELSE Len(activities)))
    ELSE {Unbound}

\* variant: the afternoon filler costs half of the afternoon share
FillerCost_Mut(period, daily_budget) ==
    CASE period = "morning" -> 0
      [] period = "afternoon" -> AfternoonBudget(daily_budget) \div 2
      [] period = "evening" -> EveningBudget(daily_budget) \div 2

\* the cost of the filler of a period (375, 389, 403)
FillerCost(period, daily_budget) ==
    CASE period = "morning" -> 0
      [] period = "afternoon" -> MorningBudget(daily_budget) \div 2
      [] period = "evening" -> EveningBudget(daily_budget) \div 2

SlotPlan(activity, period, name, daily_budget) ==
    IF activity # Unbound
    THEN [description |-> activity.description, cost |-> activity.cost]
    ELSE [description |-> FillerDescription(period, name),
          cost |-> FillerCost(period, daily_budget)]

Title(form, name, keyword, day) ==
    [form |-> form, name |-> name, keyword |-> keyword, day |-> day]

\* activities_keywords, in the order the source appends them (416-422)
ActivitiesKeywords(morning_activity, afternoon_activity, evening_activity) ==
    (IF LowerContains("cultural", morning_activity.description)
        \/ LowerContains("museum", morning_activity.description)
     THEN <<"Cultural">> ELSE <<>>)
    \o (IF LowerContains("outdoor", afternoon_activity.description)
           \/ LowerContains("nature", afternoon_activity.description)
        THEN <<"Outdoor">> ELSE <<>>)
    \o (IF LowerContains("food", evening_activity.description)
           \/ LowerContains("cuisine", evening_activity.description)
        THEN <<"Culinary">> ELSE <<>>)

\* variant: the last-day test comes first
DayTitles_Mut(prefs, name, day_number, morning_activity, afternoon_activity, evening_activity) ==
    IF day_number = prefs.duration THEN {Title("Final Day in", name, "", 0)}
    ELSE IF day_number = 1 THEN {Title("Welcome to", name, "", 0)}
    ELSE IF Unbound \in {morning_activity, afternoon_activity, evening_activity}
         THEN {Raise("UnboundLocalError")}
    ELSE LET activities_keywords ==
                 ActivitiesKeywords(morning_activity, afternoon_activity, evening_activity)
         IN  IF activities_keywords # <<>>
             THEN {Title("Day of Exploration in", name, keyword, 0) :
                       keyword \in Range(activities_keywords)}
             ELSE {Title("Exploring - Day", name, "", day_number)}

\* the titles the draws of 425 can give, or the error of reading a local
\* that no branch assigned (410-428)
DayTitles(prefs, name, day_number, morning_activity, afternoon_activity, evening_activity) ==
    IF day_number = 1 THEN {Title("Welcome to", name, "", 0)}
    ELSE IF day_number = prefs.duration THEN {Title("Final Day in", name, "", 0)}
    ELSE IF Unbound \in {morning_activity, afternoon_activity, evening_activity}
         THEN {Raise("UnboundLocalError")}
    ELSE LET activities_keywords ==
                 ActivitiesKeywords(morning_activity, afternoon_activity, evening_activity)
         IN  IF activities_keywords # <<>>
             THEN {Title("Day of Exploration in", name, keyword, 0) :
                       keyword \in Range(activities_keywords)}
             ELSE {Title("Exploring - Day", name, "", day_number)}

\* variant: the evening is left out of the total
DayPlan_Mut(title, morning_plan, afternoon_plan, evening_plan) ==
    [title |-> title, morning |-> morning_plan, afternoon |-> afternoon_plan,
     evening |-> evening_plan,
     total_cost |-> morning_plan.cost + afternoon_plan.cost]

\* 407, 430-436
DayPlan(title, morning_plan, afternoon_plan, evening_plan) ==
    [title |-> title, morning |-> morning_plan, afternoon |-> afternoon_plan,
     evening |-> evening_plan,
     total_cost |-> morning_plan.cost + afternoon_plan.cost + evening_plan.cost]

\* the set of outcomes of one call, over its random draws
recommend_daily_plan(prefs, destination_id, day_number, daily_budget) ==
    LET dest == get_destination_by_id(destination_id)
        morning_activities == PeriodActivities(prefs, destination_id, "morning",
                                               MorningBudget(daily_budget))
        afternoon_activities == PeriodActivities(prefs, destination_id, "afternoon",
                                                 AfternoonBudget(daily_budget))
        evening_activities == PeriodActivities(prefs, destination_id, "evening",
                                               EveningBudget(daily_budget))
    IN  IF IsError(dest) THEN {dest}
        ELSE UNION {
               {IF IsError(title) THEN title
                ELSE DayPlan(title,
                             SlotPlan(m, "morning", dest.name, daily_budget),
                             SlotPlan(a, "afternoon", dest.name, daily_budget),
                             SlotPlan(e, "evening", dest.name, daily_budget)) :
                    title \in DayTitles(prefs, dest.name, day_number, m, a, e)} :
               m \in PeriodChoices(morning_activities),
               a \in PeriodChoices(afternoon_activities),
               e \in PeriodChoices(evening_activities)}

(***************************************************************************)
(* ItineraryGenerator                                                      *)
(***************************************************************************)
\* variant: no floor on a negative remainder
RemainingBudget_Mut(budget, transportation_cost, accommodation_cost) ==
    budget - transportation_cost - accommodation_cost

\* 37-41
RemainingBudget(budget, transportation_cost, accommodation_cost) ==
    LET remaining == budget - transportation_cost - accommodation_cost
    IN  IF remaining < 0 THEN Times(budget, 2, 10) ELSE remaining

\* variant: the last day is left out of the sum
ActivitiesCost_Mut(plans) ==
    SumSeq([i \in 1..(Len(plans) - 1) |-> plans[i].total_cost])

\* 55
ActivitiesCost(plans) == SumSeq([i \in DOMAIN plans |-> plans[i].total_cost])

\* variant: food takes 0.3 of the remainder
FoodBudget_Mut(remaining) == Times(remaining, 3, 10)

\* 58-59
FoodBudget(remaining) == Times(remaining, 4, 10)

MiscBudget(remaining) == Times(remaining, 1, 10)

\* _generate_overview_text: the opening is one of three templates; of the
\* highlights the model keeps how many descriptions are sampled (121)
Overviews(prefs, dest, transport, accom, plans) ==
    {[intro |-> i,
      total_days |-> prefs.duration,
      destination_name |-> dest.name,
      transport_mode |-> transport.mode,
      accommodation_type |-> accom.type,
      accommodation_name |-> accom.name,
      highlights |-> IF 3 < 3 * Len(plans) THEN 3 ELSE 3 * Len(plans),
      destination_notes |-> dest.description] : i \in 1..3}

\* 67-80
Itinerary(dest, transport, accom, plans, overview, remaining) ==
    [destination |-> dest,
     transportation |-> transport,
     accommodation |-> accom,
     daily_plan |-> plans,
     overview |-> overview,
     budget_breakdown |->
         [transportation |-> transport.cost,
          accommodation |-> accom.total_cost,
          activities |-> ActivitiesCost(plans),
          food |-> FoodBudget(remaining),
          miscellaneous |-> MiscBudget(remaining)]]

(***************************************************************************)
(* The preference records the model draws.                                 *)
(***************************************************************************)
DestinationNames == {"Paris, France", "Bali, Indonesia", "Atlantis"}

Durations == -1..MaxDuration

Budgets == {Dollars(500), Dollars(2000)}

TransportationChoices == {"Plane", "Train", "Bus", "Car", "Ferry", "Any", "Hovercraft"}

AccommodationChoices == {"Hotel", "Resort", "Villa", "Any"}

InterestChoices == {{"Entertainment"},
                    {"Cultural & Historical", "Food & Culinary"},
                    {"Entertainment", "Shopping"}}

Preferences ==
    [origin : {"New York"},
     destination : DestinationNames,
     duration : Durations,
     budget : Budgets,
     transportation : TransportationChoices,
     accommodation : AccommodationChoices,
     activities : InterestChoices]

(***************************************************************************)
(* generate_itinerary, one action per statement group of the source.       *)
(***************************************************************************)
\* the page is not part of this specification
NoSession ==
    /\ widgets = None
    /\ clicks = 0
    /\ generated_itinerary = None
    /\ error_message = None
    /\ session_user_preferences = None

Init ==
    /\ pc = "start"
    /\ user_preferences \in Preferences
    /\ destination = None
    /\ transportation = None
    /\ accommodation = None
    /\ remaining_budget = 0
    /\ daily_activity_budget = 0
    /\ daily_plans = <<>>
    /\ result = None
    /\ act_input = None
    /\ act_output = <<>>
    /\ stored_accommodations = accommodations_df
    /\ acc_input = None
    /\ acc_output = None
    /\ haul = "none"
    /\ plan_input = None
    /\ plan_output = None
    /\ NoSession

Fail(e) ==
    /\ result' = e
    /\ pc' = "done"

\* 25-26
ResolveDestination ==
    /\ pc = "start"
    /\ LET d == get_destination_by_name(user_preferences.destination)
       IN  IF IsError(d)
           THEN Fail(d) /\ UNCHANGED destination
           ELSE destination' = d /\ pc' = "transport" /\ UNCHANGED result
    /\ UNCHANGED <<user_preferences, transportation, accommodation, remaining_budget,
                   daily_activity_budget, daily_plans,
                   act_input, act_output, stored_accommodations,
                   accCallVars, sessionVars, planCallVars, haul>>

\* 29
RecommendTransportation ==
    /\ pc = "transport"
    /\ \E decided \in HaulDecisions(user_preferences) :
          /\ haul' = decided
          /\ \E t \in TransportationOutcomes(user_preferences, decided) :
                IF IsError(t)
                THEN Fail(t) /\ UNCHANGED transportation
                ELSE transportation' = t /\ pc' = "accommodation" /\ UNCHANGED result
    /\ UNCHANGED <<user_preferences, destination, accommodation, remaining_budget,
                   daily_activity_budget, daily_plans,
                   act_input, act_output, stored_accommodations,
                   accCallVars, sessionVars, planCallVars>>

\* 32
RecommendAccommodation ==
    /\ pc = "accommodation"
    /\ LET a == recommend_accommodation(user_preferences, destination.id)
       IN  IF IsError(a)
           THEN Fail(a) /\ UNCHANGED accommodation
           ELSE accommodation' = a /\ pc' = "budget" /\ UNCHANGED result
    /\ stored_accommodations' = StoreAfterSelection(user_preferences, destination.id)
    /\ UNCHANGED <<user_preferences, destination, transportation, remaining_budget,
                   daily_activity_budget, daily_plans,
                   act_input, act_output,
                   accCallVars, sessionVars, planCallVars, haul>>

\* 35-44
ComputeBudget ==
    /\ pc = "budget"
    /\ remaining_budget' = RemainingBudget(user_preferences.budget,
                                           transportation.cost, accommodation.total_cost)
    /\ IF user_preferences.duration = 0
       THEN Fail(Raise("ZeroDivisionError")) /\ UNCHANGED daily_activity_budget
       ELSE /\ daily_activity_budget' = Quotient(remaining_budget',
                                                user_preferences.duration)
            /\ pc' = "days"
            /\ UNCHANGED result
    /\ UNCHANGED <<user_preferences, destination, transportation, accommodation,
                   daily_plans,
                   act_input, act_output, stored_accommodations,
                   accCallVars, sessionVars, planCallVars, haul>>

\* 48-52, one iteration of the loop
PlanDay ==
    /\ pc = "days"
    /\ Len(daily_plans) < user_preferences.duration
    /\ \E daily_plan \in recommend_daily_plan(user_preferences, destination.id,
                                              Len(daily_plans) + 1, daily_activity_budget) :
          IF IsError(daily_plan)
          THEN Fail(daily_plan) /\ UNCHANGED daily_plans
          ELSE /\ daily_plans' = Append(daily_plans, daily_plan)
               /\ UNCHANGED <<pc, result>>
    /\ UNCHANGED <<user_preferences, destination, transportation, accommodation,
                   remaining_budget, daily_activity_budget,
                   act_input, act_output, stored_accommodations,
                   accCallVars, sessionVars, planCallVars, haul>>

\* 55-82, after the loop
Assemble ==
    /\ pc = "days"
    /\ Len(daily_plans) >= user_preferences.duration
    /\ \E overview \in Overviews(user_preferences, destination, transportation,
                                 accommodation, daily_plans) :
          result' = Itinerary(destination, transportation, accommodation,
                              daily_plans, overview, remaining_budget)
    /\ pc' = "done"
    /\ UNCHANGED <<user_preferences, destination, transportation, accommodation,
                   remaining_budget, daily_activity_budget, daily_plans,
                   act_input, act_output, stored_accommodations,
                   accCallVars, sessionVars, planCallVars, haul>>

Next ==
    \/ ResolveDestination
    \/ RecommendTransportation
    \/ RecommendAccommodation
    \/ ComputeBudget
    \/ PlanDay
    \/ Assemble

Spec == Init /\ [][Next]_vars

(***************************************************************************)
(* recommend_activities on its own: the inputs are drawn from bounded      *)
(* sets and one action applies the function.                               *)
(***************************************************************************)
NoConstraint == [c \in {} |-> 0]

TimeConstraints ==
    {NoConstraint} \cup {[time_of_day |-> t] : t \in {"morning", "afternoon", "evening"}}

CostConstraints ==
    {NoConstraint} \cup {[max_cost |-> Dollars(c)] : c \in {0, 15, 40}}

ResultConstraints ==
    {NoConstraint} \cup {[max_results |-> n] : n \in 0..MaxResultsBound}

ConstraintChoices ==
    {t @@ c @@ r : t \in TimeConstraints, c \in CostConstraints, r \in ResultConstraints}

ActivityInterestChoices ==
    {{}, {"Sightseeing"}, {"Relaxation & Wellness"},
     {"Cultural & Historical", "Food & Culinary"}, {"Entertainment", "Shopping"}}

ActivityInputs ==
    [prefs : [activities : ActivityInterestChoices],
     destination_id : {1, 5, 9},
     constraints : ConstraintChoices]

InitActivities ==
    /\ pc = "call"
    /\ act_input \in ActivityInputs
    /\ act_output = <<>>
    /\ user_preferences = None
    /\ destination = None
    /\ transportation = None
    /\ accommodation = None
    /\ remaining_budget = 0
    /\ daily_activity_budget = 0
    /\ daily_plans = <<>>
    /\ result = None
    /\ stored_accommodations = accommodations_df
    /\ acc_input = None
    /\ acc_output = None
    /\ haul = "none"
    /\ plan_input = None
    /\ plan_output = None
    /\ NoSession

CallRecommendActivities ==
    /\ pc = "call"
    /\ act_output' = recommend_activities(act_input.prefs, act_input.destination_id,
                                          act_input.constraints)
    /\ pc' = "returned"
    /\ UNCHANGED <<user_preferences, destination, transportation, accommodation,
                   remaining_budget, daily_activity_budget, daily_plans, result,
                   act_input, stored_accommodations, accCallVars, sessionVars,
                   planCallVars, haul>>

NextActivities == CallRecommendActivities

SpecActivities == InitActivities /\ [][NextActivities]_vars

(***************************************************************************)
(* recommend_accommodation on its own: a sequence of calls on one          *)
(* DataManager, each with inputs drawn from bounded sets.  Destination 9   *)
(* stands for a destination without any accommodation row.                 *)
(***************************************************************************)
AccommodationBudgets == Budgets \cup {Dollars(1000)}

AccommodationInputs ==
    [prefs : [accommodation : AccommodationChoices,
              budget : AccommodationBudgets,
              duration : Durations],
     destination_id : {1, 5, 9}]

InitAccommodation ==
    /\ pc = "call"
    /\ stored_accommodations = accommodations_df
    /\ acc_input = None
    /\ acc_output = None
    /\ haul = "none"
    /\ plan_input = None
    /\ plan_output = None
    /\ act_input = None
    /\ act_output = <<>>
    /\ user_preferences = None
    /\ destination = None
    /\ transportation = None
    /\ accommodation = None
    /\ remaining_budget = 0
    /\ daily_activity_budget = 0
    /\ daily_plans = <<>>
    /\ result = None
    /\ NoSession

CallRecommendAccommodation ==
    /\ pc \in {"call", "returned"}
    /\ \E input \in AccommodationInputs :
          /\ acc_input' = input
          /\ acc_output' = recommend_accommodation(input.prefs, input.destination_id)
          /\ stored_accommodations' = StoreAfterSelection(input.prefs,
                                                          input.destination_id)
    /\ pc' = "returned"
    /\ UNCHANGED <<user_preferences, destination, transportation, accommodation,
                   remaining_budget, daily_activity_budget, daily_plans, result,
                   act_input, act_output, sessionVars, planCallVars, haul>>

NextAccommodation == CallRecommendAccommodation

SpecAccommodation == InitAccommodation /\ [][NextAccommodation]_vars

(***************************************************************************)
(* recommend_daily_plan on its own: the inputs are drawn from bounded sets *)
(* and one action takes one outcome of the call.  Destination 9 is not in  *)
(* the catalog.                                                            *)
(***************************************************************************)
PlanInterestChoices ==
    {{"Sightseeing"}, {"Entertainment"}, {"Relaxation & Wellness"},
     {"Cultural & Historical", "Food & Culinary"}}

DailyBudgets == {-Dollars(100), 0, Dollars(50), Dollars(100), Dollars(400)}

PlanInputs ==
    {input \in [prefs : [activities : PlanInterestChoices,
                         duration : 1..MaxDuration],
                destination_id : {1, 5, 9},
                day_number : 1..MaxDuration,
                daily_budget : DailyBudgets] :
         input.day_number <= input.prefs.duration}

InitDailyPlan ==
    /\ pc = "call"
    /\ plan_input \in PlanInputs
    /\ plan_output = None
    /\ haul = "none"
    /\ stored_accommodations = accommodations_df
    /\ acc_input = None
    /\ acc_output = None
    /\ act_input = None
    /\ act_output = <<>>
    /\ user_preferences = None
    /\ destination = None
    /\ transportation = None
    /\ accommodation = None
    /\ remaining_budget = 0
    /\ daily_activity_budget = 0
    /\ daily_plans = <<>>
    /\ result = None
    /\ NoSession

CallRecommendDailyPlan ==
    /\ pc = "call"
    /\ \E plan \in recommend_daily_plan(plan_input.prefs, plan_input.destination_id,
                                         plan_input.day_number,
                                         plan_input.daily_budget) :
          plan_output' = plan
    /\ pc' = "returned"
    /\ UNCHANGED <<user_preferences, destination, transportation, accommodation,
                   remaining_budget, daily_activity_budget, daily_plans, result,
                   act_input, act_output, stored_accommodations, accCallVars,
                   sessionVars, plan_input, haul>>

NextDailyPlan == CallRecommendDailyPlan

SpecDailyPlan == InitDailyPlan /\ [][NextDailyPlan]_vars

(***************************************************************************)
(* app.py: the sidebar, the handler of the generate button and the session *)
(* state.  Each click runs the script once; the call of generate_itinerary *)
(* inside the handler is the sequence of actions of Spec.                  *)
(***************************************************************************)
\* (end_date - start_date).days of two date inputs (56)
WidgetDurations == {-1, 0, 1, MaxDuration}

\* st.multiselect may be left empty (77)
WidgetInterests == {{}, {"Entertainment"}}

Widgets ==
    [origin : {"New York"},
     destination : {"Paris, France", "Bali, Indonesia"},
     duration : WidgetDurations,
     budget : Budgets,
     transportation : {"Train"},
     accommodation : {"Hotel"},
     activities : WidgetInterests]

\* variant: the interests are not looked at
ClickError_Mut(w) ==
    IF w.duration < 1
    THEN [message |-> "Please select valid travel dates."]
    ELSE None

\* 88-93: the message of a click that is rejected, None for one that is not
ClickError(w) ==
    IF w.duration < 1
    THEN [message |-> "Please select valid travel dates."]
    ELSE IF w.activities = {}
    THEN [message |-> "Please select at least one activity interest."]
    ELSE None

\* variant: a failure leaves the itinerary of the session as it was
StoredItinerary_Mut(outcome, previous) ==
    IF IsError(outcome) THEN previous ELSE outcome

\* 113 and 120: st.session_state.generated_itinerary after the try statement
StoredItinerary(outcome, previous) ==
    IF IsError(outcome) THEN None ELSE outcome

\* 115 and 119: st.session_state.error_message after the try statement
StoredError(outcome) ==
    IF IsError(outcome)
    THEN [message |-> "Error generating itinerary", error |-> outcome.error]
    ELSE None

\* 18-28
InitApp ==
    /\ pc = "idle"
    /\ widgets = None
    /\ clicks = 0
    /\ generated_itinerary = None
    /\ error_message = None
    /\ session_user_preferences = None
    /\ stored_accommodations = accommodations_df
    /\ user_preferences = None
    /\ destination = None
    /\ transportation = None
    /\ accommodation = None
    /\ remaining_budget = 0
    /\ daily_activity_budget = 0
    /\ daily_plans = <<>>
    /\ result = None
    /\ act_input = None
    /\ act_output = <<>>
    /\ acc_input = None
    /\ acc_output = None
    /\ haul = "none"
    /\ plan_input = None
    /\ plan_output = None

\* 28-111: one run of the script with generate_button set, up to the call of
\* generate_itinerary; the run builds a new DataManager
ClickGenerate ==
    /\ pc = "idle"
    /\ clicks < MaxClicks
    /\ clicks' = clicks + 1
    /\ stored_accommodations' = accommodations_df
    /\ destination' = None
    /\ transportation' = None
    /\ accommodation' = None
    /\ remaining_budget' = 0
    /\ daily_activity_budget' = 0
    /\ daily_plans' = <<>>
    /\ result' = None
    /\ haul' = "none"
    /\ \E w \in Widgets :
          /\ widgets' = w
          /\ IF ClickError(w) # None
             THEN /\ error_message' = ClickError(w)
                  /\ generated_itinerary' = None
                  /\ user_preferences' = None
                  /\ pc' = "idle"
             ELSE /\ user_preferences' = w
                  /\ pc' = "start"
                  /\ UNCHANGED <<error_message, generated_itinerary>>
    /\ UNCHANGED <<session_user_preferences, act_input, act_output, accCallVars,
                   planCallVars>>

\* 112-120: the end of the try statement
StoreResult ==
    /\ pc = "done"
    /\ generated_itinerary' = StoredItinerary(result, generated_itinerary)
    /\ error_message' = StoredError(result)
    /\ session_user_preferences' = IF IsError(result)
                                   THEN session_user_preferences
                                   ELSE user_preferences
    /\ pc' = "idle"
    /\ UNCHANGED <<user_preferences, destination, transportation, accommodation,
                   remaining_budget, daily_activity_budget, daily_plans, result,
                   act_input, act_output, stored_accommodations, accCallVars,
                   planCallVars, haul,
                   widgets, clicks>>

NextApp ==
    \/ ClickGenerate
    \/ ResolveDestination
    \/ RecommendTransportation
    \/ RecommendAccommodation
    \/ ComputeBudget
    \/ PlanDay
    \/ Assemble
    \/ StoreResult

SpecApp == InitApp /\ [][NextApp]_vars

(***************************************************************************)
(* Properties.                                                             *)
(***************************************************************************)
CatalogModes == {transportation_df[i].mode : i \in DOMAIN transportation_df}

CatalogDestinationNames == {destinations_df[i].name : i \in DOMAIN destinations_df}

ValidPreferences(prefs) ==
    /\ prefs.destination \in CatalogDestinationNames
    /\ prefs.duration >= 1
    /\ prefs.budget > 0
    /\ prefs.activities # {}
    /\ prefs.transportation \in {"Any"} \cup CatalogModes

Returned == pc = "done" /\ ~IsError(result)

Failed == pc = "done" /\ IsError(result)

CompleteSlot(slot) == DOMAIN slot = {"description", "cost"}

CompletePlan(plan) ==
    /\ DOMAIN plan = {"title", "morning", "afternoon", "evening", "total_cost"}
    /\ CompleteSlot(plan.morning)
    /\ CompleteSlot(plan.afternoon)
    /\ CompleteSlot(plan.evening)

\* both costs are known: the call is past recommend_accommodation
CostsKnown == transportation # None /\ accommodation # None

Overspend ==
    transportation.cost + accommodation.total_cost > user_preferences.budget

\* C1: for every valid preference record generate_itinerary returns an
\* itinerary whose daily_plan has exactly `duration` entries.
C1_Claim ==
    (pc = "done" /\ ValidPreferences(user_preferences))
        => (~IsError(result)
            /\ Len(result.daily_plan) = user_preferences.duration)

\* C2: recommend_daily_plan returns a complete plan for every day number
\* 1..duration, also when a period of a middle day has no candidate and a
\* filler is substituted; it never fails.
C2_Claim ==
    pc = "days" =>
        \A day \in 1..user_preferences.duration :
            \A plan \in recommend_daily_plan(user_preferences, destination.id,
                                             day, daily_activity_budget) :
                ~IsError(plan) /\ CompletePlan(plan)

\* the sum of a field over the plans, taken from the last plan backwards
RECURSIVE TotalOfDays(_, _)
TotalOfDays(plans, n) ==
    IF n = 0 THEN 0 ELSE TotalOfDays(plans, n - 1) + plans[n].total_cost

\* C3: in every returned itinerary budget_breakdown.activities is exactly
\* the sum of total_cost over the entries of daily_plan.
C3_Theorem ==
    Returned =>
        result.budget_breakdown.activities
            = TotalOfDays(result.daily_plan, Len(result.daily_plan))

C3_Witness ==
    /\ Returned
    /\ Len(result.daily_plan) >= 2
    /\ result.daily_plan[1].total_cost # result.daily_plan[2].total_cost
    /\ result.budget_breakdown.activities > 0

\* C4: a destination name that is not in the catalog makes generate_itinerary
\* raise the lookup error; no itinerary is produced and no other destination
\* is substituted.
C4_Theorem ==
    (pc # "start" /\ user_preferences.destination \notin CatalogDestinationNames)
        => /\ Failed
           /\ result.error = "IndexError"
           /\ destination = None
           /\ transportation = None
           /\ accommodation = None
           /\ daily_plans = <<>>

C4_Witness ==
    /\ Failed
    /\ user_preferences.destination = "Atlantis"
    /\ result.error = "IndexError"

\* C5: when transportation cost + accommodation total exceed the budget,
\* remaining is budget x 0.2 and the daily activity budget (remaining /
\* duration) passed to a recommend_daily_plan call is strictly positive;
\* otherwise remaining is the budget minus both costs and is not negative.
C5_Theorem ==
    pc = "days" =>
        /\ daily_activity_budget * user_preferences.duration = remaining_budget
        /\ IF Overspend
           THEN /\ 10 * remaining_budget = 2 * user_preferences.budget
                /\ Len(daily_plans) < user_preferences.duration
                      => daily_activity_budget > 0
           ELSE /\ remaining_budget = user_preferences.budget - transportation.cost
                                          - accommodation.total_cost
                /\ remaining_budget >= 0

C5_Witness ==
    /\ pc = "days"
    /\ Overspend
    /\ Len(daily_plans) >= 1
    /\ 5 * remaining_budget = user_preferences.budget

SumOfBreakdown(b) ==
    b.transportation + b.accommodation + b.activities + b.food + b.miscellaneous

\* C6: overspend is not an error: when transportation cost + accommodation
\* total exceed the budget, generate_itinerary still returns a complete
\* itinerary whose breakdown reports the actual two costs, so that budget
\* minus the sum of the five categories is negative.
C6_Claim ==
    (pc = "done" /\ CostsKnown /\ Overspend) =>
        /\ ~IsError(result)
        /\ result.budget_breakdown.transportation = transportation.cost
        /\ result.budget_breakdown.accommodation = accommodation.total_cost
        /\ user_preferences.budget - SumOfBreakdown(result.budget_breakdown) < 0

\* cost_per_night <= (budget / duration) x 0.35, without the division
WithinAccommodationBudget(cost_per_night, prefs) ==
    IF prefs.duration > 0
    THEN cost_per_night * prefs.duration * 20 <= prefs.budget * 7
    ELSE cost_per_night * prefs.duration * 20 >= prefs.budget * 7

\* the call of recommend_accommodation has returned
AccommodationReturned == accommodation # None

\* C7: with at least one candidate, recommend_accommodation returns an entry
\* within (budget / duration) x 0.35 whenever some candidate is within it;
\* only when none is does it return an over-budget entry, and that entry has
\* the minimum cost_per_night of the candidates.
C7_Theorem ==
    AccommodationReturned =>
        LET candidates == Range(AccommodationCandidates(user_preferences, destination.id))
        IN  candidates # {} =>
              /\ \E c \in candidates : c.name = accommodation.name
                                       /\ c.cost_per_night = accommodation.cost_per_night
              /\ IF \E c \in candidates :
                        WithinAccommodationBudget(c.cost_per_night, user_preferences)
                 THEN WithinAccommodationBudget(accommodation.cost_per_night,
                                                user_preferences)
                 ELSE \A c \in candidates :
                        accommodation.cost_per_night <= c.cost_per_night

C7_Witness ==
    /\ AccommodationReturned
    /\ ~WithinAccommodationBudget(accommodation.cost_per_night, user_preferences)
    /\ Cardinality(Range(AccommodationCandidates(user_preferences, destination.id))) >= 2

\* the place of an activity in the catalog
CatalogIndex(activity) ==
    CHOOSE i \in DOMAIN activities_df : activities_df[i].id = activity.id

\* C8: recommend_activities with max_results = N returns at most N
\* activities, by popularity descending then cost ascending; activities equal
\* in both keep their catalog order; no filtered activity that ranks above a
\* returned one is left out.
C8_Theorem ==
    (pc = "returned" /\ Given(act_input.constraints, "max_results")) =>
        LET N == act_input.constraints.max_results
            filtered == Range(FilteredActivities(act_input.prefs,
                                                 act_input.destination_id,
                                                 act_input.constraints))
            out == act_output
        IN  /\ Len(out) <= N
            /\ Range(out) \subseteq filtered
            /\ \A i, j \in DOMAIN out : i < j =>
                  /\ out[i].popularity >= out[j].popularity
                  /\ out[i].popularity = out[j].popularity
                        => out[i].cost <= out[j].cost
                  /\ (out[i].popularity = out[j].popularity
                      /\ out[i].cost = out[j].cost)
                        => CatalogIndex(out[i]) < CatalogIndex(out[j])
            /\ \A a \in filtered \ Range(out) :
                  /\ Len(out) = N
                  /\ \A r \in Range(out) :
                        /\ a.popularity <= r.popularity
                        /\ a.popularity = r.popularity => a.cost >= r.cost
                        /\ (a.popularity = r.popularity /\ a.cost = r.cost)
                              => CatalogIndex(r) < CatalogIndex(a)

C8_Witness ==
    /\ pc = "returned"
    /\ Given(act_input.constraints, "max_results")
    /\ Len(act_output) = act_input.constraints.max_results
    /\ Len(act_output) >= 3
    /\ Len(FilteredActivities(act_input.prefs, act_input.destination_id,
                              act_input.constraints)) > Len(act_output)
    /\ \E i \in DOMAIN act_output : \E j \in DOMAIN act_output :
          /\ i < j
          /\ act_output[i].popularity = act_output[j].popularity
          /\ act_output[i].cost = act_output[j].cost

\* the call of recommend_transportation has returned
TransportationReturned == transportation # None

\* C9: a fixed mode of the catalog is returned as asked, with a distance in
\* [500, 5000] for Plane, [50, 800] for Train, Bus or Car and [50, 2000] for
\* any other mode.
C9_Theorem ==
    (TransportationReturned /\ user_preferences.transportation \in CatalogModes) =>
        /\ transportation.mode = user_preferences.transportation
        /\ transportation.mode = "Plane"
              => (500 <= transportation.distance_km /\ transportation.distance_km <= 5000)
        /\ transportation.mode \in {"Train", "Bus", "Car"}
              => (50 <= transportation.distance_km /\ transportation.distance_km <= 800)
        /\ transportation.mode \notin {"Plane", "Train", "Bus", "Car"}
              => (50 <= transportation.distance_km /\ transportation.distance_km <= 2000)

C9_Witness ==
    /\ TransportationReturned
    /\ user_preferences.transportation = "Ferry"
    /\ transportation.mode = "Ferry"
    /\ transportation.distance_km = 2000

CompleteTransportation(t) ==
    DOMAIN t = {"mode", "distance_km", "cost", "travel_time_hours", "details"}

\* the call of recommend_transportation is over, with a record or an error
TransportationCalled ==
    destination # None /\ pc \notin {"start", "transport"}

\* C10: recommend_transportation returns a record with mode, distance, cost,
\* travel time and a descriptive string for every preference record and
\* never fails.
C10_Claim ==
    TransportationCalled => CompleteTransportation(transportation)

\* C10 as amended: it returns the complete record whenever the preference is
\* "Any" or a mode of the catalog; a named mode that the catalog does not
\* hold makes the lookup fail, and no other mode is returned in its place.
C10_Amended ==
    TransportationCalled =>
        IF user_preferences.transportation \in {"Any"} \cup CatalogModes
        THEN CompleteTransportation(transportation)
        ELSE /\ transportation = None
             /\ Failed
             /\ result.error = "IndexError"

C10_Witness ==
    /\ TransportationCalled
    /\ user_preferences.transportation = "Any"
    /\ CompleteTransportation(transportation)
    /\ transportation.mode = "Bus"

\* C11: a named transportation mode that the catalog does not hold makes
\* generate_itinerary fail with the lookup error; no other mode is
\* substituted and no itinerary is produced.
C11_Theorem ==
    (pc = "done" /\ user_preferences.transportation \notin {"Any"} \cup CatalogModes)
        => /\ IsError(result)
           /\ result.error = "IndexError"
           /\ transportation = None
           /\ accommodation = None
           /\ daily_plans = <<>>

C11_Witness ==
    /\ Failed
    /\ user_preferences.transportation = "Hovercraft"
    /\ destination # None
    /\ transportation = None

\* C14: duration = 0 is rejected as InvalidPreferences before any cost is
\* computed; no itinerary is returned.
C14_Claim ==
    (/\ user_preferences.duration = 0
     /\ user_preferences.destination \in CatalogDestinationNames
     /\ user_preferences.transportation \in {"Any"} \cup CatalogModes
     /\ pc = "done")
        => /\ IsError(result)
           /\ result.error = "InvalidPreferences"
           /\ transportation = None
           /\ accommodation = None

\* the accommodations of the destination that are within the budget
AffordableCandidates ==
    {c \in Range(AccommodationCandidates(user_preferences, destination.id)) :
         WithinAccommodationBudget(c.cost_per_night, user_preferences)}

\* C17: among the accommodations within the accommodation budget the one
\* returned has the highest rating, and among those of that rating the
\* lowest cost_per_night.
C17_Theorem ==
    (AccommodationReturned /\ AffordableCandidates # {}) =>
        /\ \E c \in AffordableCandidates : c.name = accommodation.name
        /\ \A c \in AffordableCandidates :
              /\ c.rating <= accommodation.rating
              /\ c.rating = accommodation.rating
                    => accommodation.cost_per_night <= c.cost_per_night

C17_Witness ==
    /\ AccommodationReturned
    /\ \E c \in AffordableCandidates :
          /\ c.rating = accommodation.rating
          /\ c.cost_per_night > accommodation.cost_per_night
    /\ \E c \in AffordableCandidates :
          /\ c.rating < accommodation.rating
          /\ c.cost_per_night < accommodation.cost_per_night

\* the catalog rows of a destination, and those of one type
RowsOfDestination(destination_id) ==
    {accommodations_df[i] : i \in {j \in DOMAIN accommodations_df :
                                      accommodations_df[j].destination_id = destination_id}}

RowsOfType(destination_id, type) ==
    {r \in RowsOfDestination(destination_id) : r.type = type}

\* C18: recommend_accommodation widens to all accommodations of the
\* destination only when it has none of the preferred type; when it has one,
\* the returned accommodation is of that type, also when every entry of the
\* type is over budget and a cheaper entry of another type exists.
C18_Theorem ==
    AccommodationReturned =>
        LET ofType == RowsOfType(destination.id, user_preferences.accommodation)
        IN  IF ofType # {}
            THEN /\ accommodation.type = user_preferences.accommodation
                 /\ \E r \in ofType : r.name = accommodation.name
            ELSE \E r \in RowsOfDestination(destination.id) :
                    r.name = accommodation.name

C18_Witness ==
    /\ AccommodationReturned
    /\ user_preferences.accommodation = "Resort"
    /\ accommodation.type = "Resort"
    /\ ~WithinAccommodationBudget(accommodation.cost_per_night, user_preferences)
    /\ \E r \in RowsOfDestination(destination.id) :
          /\ r.type # "Resort"
          /\ WithinAccommodationBudget(r.cost_per_night, user_preferences)

\* a direct call of recommend_accommodation has returned a record
AccommodationCallReturned == pc = "returned" /\ acc_input # None /\ ~IsError(acc_output)

\* C12: after any sequence of recommend_accommodation calls the stored
\* accommodation rows are the rows the catalog was built with, in the same
\* order, none of them carries a total_cost field, and the derived total_cost
\* is on the record handed to the caller.
C12_Theorem ==
    /\ stored_accommodations = accommodations_df
    /\ \A i \in DOMAIN stored_accommodations :
          "total_cost" \notin DOMAIN stored_accommodations[i]
    /\ AccommodationCallReturned => "total_cost" \in DOMAIN acc_output

\* a call went through the in-place sort by cost (nothing affordable) and the
\* row it returned was not the first of its candidates
C12_Witness ==
    /\ AccommodationCallReturned
    /\ acc_input.prefs.duration >= 1
    /\ LET candidates == AccommodationCandidates(acc_input.prefs,
                                                 acc_input.destination_id)
       IN  /\ candidates # <<>>
           /\ Affordable(candidates, AccommodationBudget(acc_input.prefs)) = <<>>
           /\ \E i \in DOMAIN candidates :
                 i > 1 /\ candidates[i].name = acc_output.name
    /\ "total_cost" \in DOMAIN acc_output

\* the destination of the call has no accommodation row of any type
NoAccommodationAtAll ==
    /\ pc = "returned"
    /\ acc_input # None
    /\ get_accommodations_by_destination(acc_input.destination_id) = <<>>

\* C19 as stated: when the destination has no accommodation at all the call
\* returns, without failing, a fallback of type "Hotel" with cost_per_night
\* 100, rating 4.0 and total_cost = 100 x duration; every other returned
\* record carries total_cost = cost_per_night x duration.
C19_Claim ==
    /\ NoAccommodationAtAll =>
          /\ ~IsError(acc_output)
          /\ acc_output.type = "Hotel"
          /\ acc_output.cost_per_night = Dollars(100)
          /\ acc_output.rating = 40
          /\ acc_output.total_cost = Dollars(100) * acc_input.prefs.duration
    /\ (AccommodationCallReturned /\ ~NoAccommodationAtAll) =>
          acc_output.total_cost
              = acc_output.cost_per_night * acc_input.prefs.duration

\* C19 amended: the fallback's type is the preferred type, and "Hotel" only
\* when the preference is "Any"; its cost_per_night is 100, its rating 4.0 and
\* its total_cost 100 x duration, and the call does not fail; every other
\* returned record carries total_cost = cost_per_night x duration.
C19_Amended ==
    /\ NoAccommodationAtAll =>
          /\ ~IsError(acc_output)
          /\ acc_output.type = IF acc_input.prefs.accommodation = "Any"
                               THEN "Hotel"
                               ELSE acc_input.prefs.accommodation
          /\ acc_output.cost_per_night = Dollars(100)
          /\ acc_output.rating = 40
          /\ acc_output.total_cost = Dollars(100) * acc_input.prefs.duration
    /\ (AccommodationCallReturned /\ ~NoAccommodationAtAll) =>
          acc_output.total_cost
              = acc_output.cost_per_night * acc_input.prefs.duration

\* a fallback was returned for a stay of several nights with a named type
C19_Witness ==
    /\ NoAccommodationAtAll
    /\ acc_input.prefs.accommodation = "Resort"
    /\ acc_input.prefs.duration >= 2
    /\ ~IsError(acc_output)
    /\ acc_output.type = "Resort"
    /\ acc_output.total_cost = Dollars(200)

\* a call of recommend_activities without time_of_day and max_cost has
\* returned, for a destination that has at least one activity
UnconstrainedCall ==
    /\ pc = "returned"
    /\ act_input # None
    /\ ~Given(act_input.constraints, "time_of_day")
    /\ ~Given(act_input.constraints, "max_cost")
    /\ get_activities_by_destination(act_input.destination_id) # <<>>

\* what C20 says of the categories: with no activity of the destination in a
\* preferred category the result is drawn from all its activities and is cut
\* only by max_results; with at least one, every returned activity is in a
\* preferred category
CategoryRule ==
    LET all_activities == get_activities_by_destination(act_input.destination_id)
        preferred == act_input.prefs.activities
        N == MaxResults(act_input.constraints)
    IN  IF \A i \in DOMAIN all_activities : all_activities[i].category \notin preferred
        THEN /\ Range(act_output) \subseteq Range(all_activities)
             /\ Len(act_output) = IF Len(all_activities) < N
                                  THEN Len(all_activities) ELSE N
        ELSE \A i \in DOMAIN act_output : act_output[i].category \in preferred

\* C20 as stated: recommend_activities without time_of_day or max_cost never
\* returns an empty list for a destination that has at least one activity; it
\* falls back to all activities when none is in a preferred category, and
\* otherwise returns only activities of the preferred categories.
C20_Claim ==
    UnconstrainedCall => (act_output # <<>> /\ CategoryRule)

\* C20 amended: the same, for calls whose max_results is absent or at least 1;
\* with max_results = 0 the list is empty.
C20_Amended ==
    /\ (UnconstrainedCall /\ MaxResults(act_input.constraints) >= 1)
          => (act_output # <<>> /\ CategoryRule)
    /\ (UnconstrainedCall /\ MaxResults(act_input.constraints) = 0)
          => act_output = <<>>

\* the fallback happened: no activity of the destination is in the preferred
\* category and activities of other categories were returned
C20_Witness ==
    /\ UnconstrainedCall
    /\ act_input.prefs.activities = {"Relaxation & Wellness"}
    /\ act_input.destination_id = 1
    /\ act_output # <<>>
    /\ \A i \in DOMAIN act_output : act_output[i].category # "Relaxation & Wellness"

\* generate_itinerary is running or has just ended
CoreCalled == pc \in {"start", "transport", "accommodation", "budget", "days", "done"}

\* the last click was rejected by the handler
RejectedClick ==
    /\ pc = "idle"
    /\ clicks >= 1
    /\ (widgets.duration < 1 \/ widgets.activities = {})

\* C15: the page calls generate_itinerary only with duration >= 1 and at
\* least one interest; a click with duration < 1 or without interests sets an
\* error message, clears the stored itinerary and does not call the core.
C15_Theorem ==
    /\ CoreCalled =>
          /\ user_preferences = widgets
          /\ user_preferences.duration >= 1
          /\ user_preferences.activities # {}
    /\ RejectedClick =>
          /\ error_message # None
          /\ "error" \notin DOMAIN error_message
          /\ generated_itinerary = None
          /\ user_preferences = None
          /\ destination = None
          /\ result = None

\* after a successful request, a click with valid dates and no interest was
\* rejected and the itinerary of the session cleared
C15_Witness ==
    /\ RejectedClick
    /\ widgets.duration >= 1
    /\ widgets.activities = {}
    /\ session_user_preferences # None
    /\ generated_itinerary = None
    /\ error_message = [message |-> "Please select at least one activity interest."]

CompleteItinerary(itinerary) ==
    /\ DOMAIN itinerary = {"destination", "transportation", "accommodation",
                           "daily_plan", "overview", "budget_breakdown"}
    /\ itinerary.destination # None
    /\ itinerary.transportation # None
    /\ itinerary.accommodation # None
    /\ \A i \in DOMAIN itinerary.daily_plan : CompletePlan(itinerary.daily_plan[i])
    /\ DOMAIN itinerary.budget_breakdown
          = {"transportation", "accommodation", "activities", "food", "miscellaneous"}

\* C16: a request ends with a complete itinerary or with an error; the
\* session never holds an error message together with an itinerary, the
\* itinerary it holds is complete, and after a failed request the itinerary
\* of the session is cleared.
C16_Theorem ==
    /\ pc = "done" => (IsError(result) \/ CompleteItinerary(result))
    /\ ~(error_message # None /\ generated_itinerary # None)
    /\ generated_itinerary # None => CompleteItinerary(generated_itinerary)
    /\ (pc = "idle" /\ IsError(result)) =>
          (generated_itinerary = None /\ error_message = StoredError(result))

\* a request failed after an earlier one of the session had succeeded
C16_Witness ==
    /\ pc = "idle"
    /\ clicks = 2
    /\ IsError(result)
    /\ session_user_preferences # None
    /\ generated_itinerary = None
    /\ error_message # None

\* the suitability flag of an activity for a period
SuitableAt(activity, time_of_day) ==
    CASE time_of_day = "morning" -> activity.morning_suitable
      [] time_of_day = "afternoon" -> activity.afternoon_suitable
      [] time_of_day = "evening" -> activity.evening_suitable

\* the activity meets the time_of_day and max_cost constraints that are given
MeetsConstraints(activity, constraints) ==
    /\ Given(constraints, "time_of_day")
          => SuitableAt(activity, constraints.time_of_day)
    /\ Given(constraints, "max_cost") => activity.cost <= constraints.max_cost

\* the catalog rows of a destination
ActivitiesOf(destination_id) ==
    {a \in Range(activities_df) : a.destination_id = destination_id}

\* the rows the category step keeps: those of the preferred categories, or
\* all rows of the destination when there is none
CategoryBase(destination_id, preferred) ==
    LET own == ActivitiesOf(destination_id)
        matching == {a \in own : a.category \in preferred}
    IN  IF matching = {} THEN own ELSE matching

\* C21: every activity recommend_activities returns is a row of the requested
\* destination, has the flag of the requested time_of_day when one is given
\* and cost <= max_cost when one is given; the category fallback is decided
\* before these filters: the result is drawn from the rows the category step
\* kept, and is empty when none of them passes, whatever other rows would.
C21_Theorem ==
    pc = "returned" =>
        LET base == CategoryBase(act_input.destination_id, act_input.prefs.activities)
        IN  /\ \A i \in DOMAIN act_output :
                  /\ act_output[i].destination_id = act_input.destination_id
                  /\ MeetsConstraints(act_output[i], act_input.constraints)
                  /\ act_output[i] \in base
            /\ (\A a \in base : ~MeetsConstraints(a, act_input.constraints))
                  => act_output = <<>>

\* the filters emptied the list of a preferred category although an activity
\* of another category of the destination passes both
C21_Witness ==
    /\ pc = "returned"
    /\ act_output = <<>>
    /\ Given(act_input.constraints, "time_of_day")
    /\ Given(act_input.constraints, "max_cost")
    /\ MaxResults(act_input.constraints) >= 1
    /\ LET own == ActivitiesOf(act_input.destination_id)
           base == CategoryBase(act_input.destination_id, act_input.prefs.activities)
       IN  /\ base # own
           /\ \E a \in own \ base : MeetsConstraints(a, act_input.constraints)

\* recommend_transportation has returned a record on the free-mode path
FreeModeReturned == TransportationReturned /\ user_preferences.transportation = "Any"

\* the distance tiers: above 1000 km, above 300 up to 1000 km, up to 300 km
DistanceTiers ==
    /\ transportation.distance_km > 1000 => transportation.mode = "Plane"
    /\ (300 < transportation.distance_km /\ transportation.distance_km <= 1000)
          => transportation.mode \in {"Plane", "Train", "Car"}
    /\ transportation.distance_km <= 300
          => transportation.mode \in {"Train", "Bus", "Car"}

\* C27 as stated: with transportation "Any" the returned mode and distance
\* obey the distance tiers, and every trip decided as long-haul (distance
\* drawn from [1000, 8000]) is by Plane.
C27_Claim ==
    FreeModeReturned =>
        /\ DistanceTiers
        /\ haul = "long-haul" => transportation.mode = "Plane"

\* C27 amended: the tiers hold; a trip decided as long-haul has a distance in
\* [1000, 8000] and is by Plane when the distance is above 1000 km, by Plane,
\* Train or Car when it is exactly 1000 km; a short-haul one has a distance
\* in [50, 800].
C27_Amended ==
    FreeModeReturned =>
        /\ DistanceTiers
        /\ haul \in {"long-haul", "short-haul"}
        /\ haul = "long-haul" =>
              /\ 1000 <= transportation.distance_km
              /\ transportation.distance_km <= 8000
              /\ transportation.distance_km > 1000 => transportation.mode = "Plane"
              /\ transportation.distance_km = 1000
                    => transportation.mode \in {"Plane", "Train", "Car"}
        /\ haul = "short-haul" =>
              /\ 50 <= transportation.distance_km
              /\ transportation.distance_km <= 800

\* a long-haul trip of exactly 1000 km went by Train
C27_Witness ==
    /\ FreeModeReturned
    /\ haul = "long-haul"
    /\ transportation.distance_km = 1000
    /\ transportation.mode = "Train"

\* the catalog row of a mode
ModeRow(mode) ==
    transportation_df[CHOOSE i \in DOMAIN transportation_df :
                          transportation_df[i].mode = mode]

\* C28: in every record recommend_transportation returns, on the fixed-mode
\* and on the free-mode path, cost is distance times the cost per km of the
\* returned mode and travel time is distance divided by its speed (here in
\* whole seconds); the cost is never negative.
C28_Theorem ==
    TransportationReturned =>
        LET row == ModeRow(transportation.mode)
            seconds == transportation.travel_time_hours
        IN  /\ transportation.cost = transportation.distance_km * row.typical_cost_per_km
            /\ seconds * row.speed_km_h <= transportation.distance_km * 3600
            /\ transportation.distance_km * 3600 < (seconds + 1) * row.speed_km_h
            /\ transportation.cost >= 0

\* a free-mode call returned a Car trip of 800 km: cost $160, eight hours
C28_Witness ==
    /\ FreeModeReturned
    /\ transportation.mode = "Car"
    /\ transportation.distance_km = 800
    /\ transportation.cost = Dollars(160)
    /\ transportation.travel_time_hours = 8 * 3600

\* C29: in every itinerary food is 0.4 x remaining and miscellaneous is
\* 0.1 x remaining, remaining being the value the daily activity budget was
\* taken from; after the overspend override remaining is 0.2 x budget, so
\* food is 0.08 x budget and miscellaneous 0.02 x budget; neither is negative.
C29_Theorem ==
    Returned =>
        LET b == result.budget_breakdown
        IN  /\ b.food * 10 = remaining_budget * 4
            /\ b.miscellaneous * 10 = remaining_budget
            /\ daily_activity_budget * user_preferences.duration = remaining_budget
            /\ Overspend =>
                  /\ remaining_budget * 10 = user_preferences.budget * 2
                  /\ b.food * 100 = user_preferences.budget * 8
                  /\ b.miscellaneous * 100 = user_preferences.budget * 2
            /\ b.food >= 0
            /\ b.miscellaneous >= 0

\* an itinerary was returned after the override: budget $500, food $40
C29_Witness ==
    /\ Returned
    /\ user_preferences.duration >= 1
    /\ Overspend
    /\ user_preferences.budget = Dollars(500)
    /\ result.budget_breakdown.food = Dollars(40)
    /\ result.budget_breakdown.miscellaneous = Dollars(10)

\* C30: generate_itinerary returns no itinerary for a preference record
\* whose duration is below 1, negative durations included: no itinerary has
\* zero daily plans or a negative accommodation total_cost.
C30_Claim ==
    /\ (pc = "done" /\ user_preferences.duration < 1) => IsError(result)
    /\ Returned =>
          /\ Len(result.daily_plan) >= 1
          /\ result.accommodation.total_cost >= 0

\* a direct call of recommend_daily_plan has returned a plan
PlanReturned == pc = "returned" /\ plan_input # None /\ ~IsError(plan_output)

Periods == {"morning", "afternoon", "evening"}

\* the share of the daily budget of a period, in tenths
ShareTenths(period) == IF period = "afternoon" THEN 4 ELSE 3

\* the activities a period of the call can take: rows the category step
\* keeps, suitable for the period, with cost <= the period's share
PeriodCandidates(period) ==
    {a \in CategoryBase(plan_input.destination_id, plan_input.prefs.activities) :
         /\ SuitableAt(a, period)
         /\ a.cost * 10 <= plan_input.daily_budget * ShareTenths(period)}

\* popularity descending, then cost ascending, then catalog order
RankedAbove(a, b) ==
    \/ a.popularity > b.popularity
    \/ (a.popularity = b.popularity /\ a.cost < b.cost)
    \/ (a.popularity = b.popularity /\ a.cost = b.cost
        /\ CatalogIndex(a) < CatalogIndex(b))

\* the at most three top-ranked of a set of activities
TopThree(S) == {c \in S : Cardinality({x \in S : RankedAbove(x, c)}) < 3}

\* the name of the destination of the call
PlanDestinationName ==
    (CHOOSE d \in Range(destinations_df) : d.id = plan_input.destination_id).name

\* C22: in a plan recommend_daily_plan returns, each slot whose period has a
\* candidate holds the description and cost of one of the at most three
\* top-ranked activities suitable for the period with cost <= the period's
\* share (30%, 40%, 30%); a filler is used only when the period has none.
C22_Theorem ==
    PlanReturned =>
        \A period \in Periods :
            LET S == PeriodCandidates(period)
                slot == plan_output[period]
            IN  IF S # {}
                THEN \E c \in TopThree(S) : /\ slot.description = c.description
                                            /\ slot.cost = c.cost
                ELSE slot.description = FillerDescription(period, PlanDestinationName)

\* a period had more than three candidates and its slot holds one of the top
\* three that is not the best-ranked
C22_Witness ==
    /\ PlanReturned
    /\ \E period \in Periods :
          LET S == PeriodCandidates(period)
          IN  /\ Cardinality(S) > 3
              /\ \E c \in TopThree(S) :
                    /\ plan_output[period].description = c.description
                    /\ plan_output[period].cost = c.cost
                    /\ \E x \in S : RankedAbove(x, c)

\* the cost C23 gives the filler of a period: 0, 0.15 x budget, 0.15 x budget
IsFillerCost(period, cost) ==
    IF period = "morning" THEN cost = 0
    ELSE cost * 100 = plan_input.daily_budget * 15

\* C23: when a period has no candidate activity the slot is a filler whose
\* cost is 0 for the morning, half of the morning share (0.15 x the daily
\* budget) for the afternoon and half of the evening share (0.15 x the daily
\* budget) for the evening.
C23_Theorem ==
    PlanReturned =>
        \A period \in Periods :
            PeriodCandidates(period) = {} =>
                /\ plan_output[period].description
                      = FillerDescription(period, PlanDestinationName)
                /\ IsFillerCost(period, plan_output[period].cost)

\* all three slots are fillers: $0, $15 and $15 of a daily budget of $100
C23_Witness ==
    /\ PlanReturned
    /\ plan_input.daily_budget = Dollars(100)
    /\ \A period \in Periods : PeriodCandidates(period) = {}
    /\ plan_output.morning.cost = 0
    /\ plan_output.afternoon.cost = Dollars(15)
    /\ plan_output.evening.cost = Dollars(15)

\* C24: every plan recommend_daily_plan returns for a daily budget >= 0 has
\* total_cost equal to the sum of its three slot costs and not above the
\* daily budget; so in every itinerary the activities cost is not above the
\* remaining budget the daily budget was taken from.
C24_Theorem ==
    /\ \A i \in DOMAIN daily_plans :
          LET plan == daily_plans[i]
          IN  /\ plan.total_cost
                    = plan.morning.cost + plan.afternoon.cost + plan.evening.cost
              /\ daily_activity_budget >= 0 => plan.total_cost <= daily_activity_budget
    /\ Returned => result.budget_breakdown.activities <= remaining_budget

\* an itinerary of several days with a paid afternoon and a paid evening
C24_Witness ==
    /\ Returned
    /\ Len(result.daily_plan) >= 2
    /\ daily_activity_budget > 0
    /\ result.budget_breakdown.activities > 0
    /\ \E i \in DOMAIN result.daily_plan :
          /\ result.daily_plan[i].afternoon.cost > 0
          /\ result.daily_plan[i].evening.cost > 0

\* C25: recommend_daily_plan titles day 1 "Welcome to <destination>" and,
\* for duration >= 2, the day whose number is the duration "Final Day in
\* <destination>"; with duration 1 the single day gets the first-day title.
C25_Theorem ==
    PlanReturned =>
        /\ plan_input.day_number = 1
              => plan_output.title = Title("Welcome to", PlanDestinationName, "", 0)
        /\ (plan_input.prefs.duration >= 2
            /\ plan_input.day_number = plan_input.prefs.duration)
              => plan_output.title = Title("Final Day in", PlanDestinationName, "", 0)

\* the single day of a one-day trip got the first-day title
C25_Witness ==
    /\ PlanReturned
    /\ plan_input.prefs.duration = 1
    /\ plan_input.day_number = 1
    /\ plan_output.title = Title("Welcome to", PlanDestinationName, "", 0)

\* the keywords whose hint words occur in one of the three slot descriptions
HintedKeywords(plan) ==
    LET descriptions == {plan.morning.description, plan.afternoon.description,
                         plan.evening.description}
        Hinted(w1, w2) == \E d \in descriptions :
                              LowerContains(w1, d) \/ LowerContains(w2, d)
    IN  (IF Hinted("cultural", "museum") THEN {"Cultural"} ELSE {})
        \cup (IF Hinted("outdoor", "nature") THEN {"Outdoor"} ELSE {})
        \cup (IF Hinted("food", "cuisine") THEN {"Culinary"} ELSE {})

====
